---- MODULE Spec2Model ----
(***************************************************************************)
(* A model of go-cache-prog: the protocol engine (Handler.Run of package   *)
(* cache), the local content-addressable store (package local) and the     *)
(* tiered store (package cos).                                             *)
(*                                                                         *)
(* Spec         the engine running against the Provider interface          *)
(* SpecLive     Spec with fair scheduling of the reader and the workers    *)
(* SpecSession  the engine running against the local store                 *)
(* SpecStore    the local store: Put, Get, out-of-band changes of objects  *)
(* SpecMarker   the local store over marker files of any content           *)
(* SpecTiered   the tiered store: Put, Get, changes of the remote bucket   *)
(* SpecConcurrent     the local store under concurrent calls, one file     *)
(*                    operation per step                                   *)
(* SpecTieredSession  the engine running against the tiered store          *)
(***************************************************************************)
EXTENDS Integers, Sequences, FiniteSets, TLC

\* ------------------------------------------------------------------------
\* Bounds of the model
\* ------------------------------------------------------------------------

\* the largest worker budget (Handler.workers) a session is started with
MaxWorkers == 2

\* the number of records the input stream holds at most (requests and bodies)
MaxRecs == 3

\* the largest BodySize a put record declares; a body record holds at most
\* MaxBody + 1 bytes
MaxBody == 1

\* ------------------------------------------------------------------------
\* Strings: a Go string is a sequence of one-character strings
\* ------------------------------------------------------------------------

HexDigits == <<"0", "1", "2", "3", "4", "5", "6", "7",
               "8", "9", "a", "b", "c", "d", "e", "f">>

\* hex.EncodeToString: two lower-case hex digits per byte
RECURSIVE enc(_)
enc(in) ==
    IF in = <<>> THEN <<>>
    ELSE <<HexDigits[(Head(in) \div 16) + 1], HexDigits[(Head(in) % 16) + 1]>>
         \o enc(Tail(in))

\* the value of one hex digit, -1 for any other character
\* (hex.DecodeString takes upper-case digits too; the model's alphabet has none)
HexVal(c) ==
    IF \E k \in 1..16 : HexDigits[k] = c
    THEN (CHOOSE k \in 1..16 : HexDigits[k] = c) - 1
    ELSE -1

\* whether hex.DecodeString returns an error: odd length or a non-hex character
decFails(in) ==
    \/ Len(in) % 2 = 1
    \/ \E k \in 1..Len(in) : HexVal(in[k]) = -1

\* hex.DecodeString on a string it accepts
RECURSIVE dec(_)
dec(in) ==
    IF Len(in) < 2 THEN <<>>
    ELSE <<HexVal(in[1]) * 16 + HexVal(in[2])>> \o dec(SubSeq(in, 3, Len(in)))

DigitChars == <<"0", "1", "2", "3", "4", "5", "6", "7", "8", "9">>

IsDigit(c) == \E k \in 1..10 : DigitChars[k] = c
DigitVal(c) == (CHOOSE k \in 1..10 : DigitChars[k] = c) - 1

\* the verb %d of fmt.Appendf for n >= 0
RECURSIVE Decimal(_)
Decimal(n) ==
    IF n < 10 THEN <<DigitChars[n + 1]>>
    ELSE Decimal(n \div 10) \o <<DigitChars[(n % 10) + 1]>>

RECURSIVE DigitsVal(_)
DigitsVal(s) ==
    IF s = <<>> THEN 0
    ELSE DigitsVal(SubSeq(s, 1, Len(s) - 1)) * 10 + DigitVal(s[Len(s)])

\* (mutant of ParseInt: a string without digits is read as 0)
ParseIntLenient(s) ==
    LET signed == s # <<>> /\ s[1] \in {"+", "-"}
        digits == IF signed THEN Tail(s) ELSE s
    IN  IF \E k \in 1..Len(digits) : ~IsDigit(digits[k])
        THEN [ok |-> FALSE, val |-> 0]
        ELSE [ok |-> TRUE,
              val |-> IF signed /\ s[1] = "-" THEN 0 - DigitsVal(digits)
                      ELSE DigitsVal(digits)]

\* strconv.ParseInt(s, 10, 64): an optional sign, then one digit or more; the
\* model's strings are too short to leave the range of int64
ParseInt(s) ==
    LET signed == s # <<>> /\ s[1] \in {"+", "-"}
        digits == IF signed THEN Tail(s) ELSE s
    IN  IF digits = <<>> \/ \E k \in 1..Len(digits) : ~IsDigit(digits[k])
        THEN [ok |-> FALSE, val |-> 0]
        ELSE [ok |-> TRUE,
              val |-> IF signed /\ s[1] = "-" THEN 0 - DigitsVal(digits)
                      ELSE DigitsVal(digits)]

\* strings.SplitN(s, ":", 2): the string if it holds no colon, else what
\* stands before and after the first one
SplitN(s) ==
    IF \A k \in 1..Len(s) : s[k] # ":" THEN <<s>>
    ELSE LET k == CHOOSE k \in 1..Len(s) :
                     s[k] = ":" /\ \A j \in 1..(k - 1) : s[j] # ":"
         IN  <<SubSeq(s, 1, k - 1), SubSeq(s, k + 1, Len(s))>>

\* ------------------------------------------------------------------------
\* The wire records (pkg/cache/model.go)
\* ------------------------------------------------------------------------

\* error values; NoErr is Go's nil error. at is not part of the error: for an
\* error of the reader it is the number of records consumed when it arose, for
\* an error of a worker the number of its request
Err(what, at) == [e |-> what, at |-> at]
NoErr == Err("nil", 0)

\* Provider.KnownCommands of both providers
KnownCommands == <<"get", "put", "close">>

\* progRequest; Body is set by the reader, NoBody is the nil io.Reader
NoBody == <<-1>>
progRequest(id, cmd, actionID, outputID, bodySize) ==
    [ID |-> id, Command |-> cmd, ActionID |-> actionID, OutputID |-> outputID,
     BodySize |-> bodySize, Body |-> NoBody]

\* progResponse; req is not on the wire: it names the record of the input
\* stream the response was made for (0 for the handshake)
progResponse(id, known, miss, outputID, size, diskPath, req) ==
    [ID |-> id, KnownCommands |-> known, Miss |-> miss, OutputID |-> outputID,
     Size |-> size, DiskPath |-> diskPath, req |-> req]

\* the keys a request of the engine's input carries: empty or not
EngineKeys == {<<>>, <<58>>}

\* the ID of the n-th request of a session: the caller numbers its requests,
\* each with an ID of its own; the engine does not interpret them
IdAt(n) == 10 + n

\* the request records the input stream may hold as its n-th request
Requests(n) ==
    {progRequest(IdAt(n), "get", k, <<>>, 0) : k \in EngineKeys}
    \cup {progRequest(IdAt(n), "put", <<58>>, <<58>>, s) : s \in 0..MaxBody}
    \cup {progRequest(IdAt(n), "put", <<>>, <<58>>, 0)}
    \cup {progRequest(IdAt(n), "put", <<58>>, <<>>, s) : s \in {0, MaxBody}}
    \cup {progRequest(IdAt(n), c, <<>>, <<>>, 0) : c \in {"close", "frobnicate"}}

\* the body records the input stream may hold: a JSON string of 0..MaxBody+1 bytes
RECURSIVE Bytes(_)
Bytes(n) == IF n = 0 THEN <<>> ELSE <<58>> \o Bytes(n - 1)
Bodies == {Bytes(n) : n \in 0..(MaxBody + 1)}

\* ------------------------------------------------------------------------
\* State
\* ------------------------------------------------------------------------

VARIABLES
    workers,    \* Handler.workers
    pcR,        \* where the reader loop (and before it, Run) stands
    nread,      \* number of records consumed from the input stream
    reqs,       \* the request records decoded so far, in stream order
    tpc,        \* per request: where its worker stands
    tresp,      \* per request: the response its worker made
    out,        \* the output stream: the records flushed to h.out
    buf,        \* the bufio.Writer's buffer: records encoded, not yet flushed
    wmu,        \* writeMutex: 0 free, i held by the worker of request i
    werr,       \* the output stream is broken: every write fails
    gerr,       \* the errgroup's first error
    rerr,       \* what the reader loop's closure returned; Running until then
    gdone,      \* g.Done() was called
    ncloses,    \* number of Provider.Close calls made
    runRet,     \* what Run returned; Running until then
    markers,    \* the files of <cacheDir>/action, by name
    objects,    \* the files of <cacheDir>/object, by name
    last,       \* the last call of the local store and what it returned
    minUploadSize,  \* config.MinUploadSize of the tiered store
    remote,     \* the objects of the remote bucket, by action id
    tlast,      \* the last call of the tiered store and what it returned
    calls       \* per worker goroutine: its call of the local store, step by step

\* the engine's variables and the local store's
evars == <<workers, pcR, nread, reqs, tpc, tresp, out, buf, wmu, werr, gerr,
           rerr, gdone, ncloses, runRet>>
svars == <<markers, objects, last>>
tvars == <<minUploadSize, remote, tlast>>
cvars == <<calls>>
vars == <<evars, svars, tvars, cvars>>

Running == Err("running", 0)
NoResp == progResponse(0, <<>>, FALSE, <<>>, 0, <<>>, 0)

ReqIdx == 1..MaxRecs

\* the request the reader is working on: the last one decoded
cur == Len(reqs)

\* ------------------------------------------------------------------------
\* errgroup (pkg/errgroup is not among the source files: modelled from the
\* spec's sections 4.4, 5 and 9)
\* ------------------------------------------------------------------------

\* the workers that hold a slot of the pool
InFlight == {i \in ReqIdx : tpc[i] \in {"call", "ready", "writing"}}

\* the reader loop holds a slot while it runs
ReaderRuns == pcR \in {"decode", "body", "go", "close"}

SlotsUsed == Cardinality(InFlight) + (IF ReaderRuns THEN 1 ELSE 0)

\* (mutant of Capacity: one slot too many)
CapacityPlusOne == workers + 2

\* (mutant of Capacity: a slot for the reader and two for every worker)
CapacityTwice == 2 * workers + 1

\* (mutant of Capacity: no slot for the reader loop)
CapacityWithoutReader == workers

\* errgroup.New(h.workers + 1): the pool's capacity
Capacity == workers + 1

\* g.Go blocks while the pool is saturated
GoMayStart == SlotsUsed < Capacity

\* a task that returns err: the group keeps the first error
Record(err) == IF gerr = NoErr THEN err ELSE gerr

\* g.Wait returns when the reader and every worker have returned
WaitReturns == pcR = "exit" /\ InFlight = {}

\* ------------------------------------------------------------------------
\* The Provider interface as the engine sees it (pkg/cache/model.go)
\* ------------------------------------------------------------------------

\* notFound() and failure(err) of the providers
notFound == [objectId |-> <<>>, diskpath |-> <<>>, err |-> NoErr]
failure(err) == [objectId |-> <<>>, diskpath |-> <<>>, err |-> err]

\* what Provider.Get may return: a miss, an error, or an object id with its
\* path; the id comes from a marker file or from remote metadata and need not
\* be the hex string some Put stored
ProviderGet(actionId) ==
    {notFound, failure(Err("provider", 0))}
    \cup {[objectId |-> o, diskpath |-> <<"object">> \o o, err |-> NoErr] :
             o \in {enc(<<58>>), <<"z", "z">>}}

\* what Provider.Put may return: the path of the object, or an error
ProviderPut(actionId, objectId, body) ==
    {[diskpath |-> <<"object">> \o objectId, err |-> NoErr],
     [diskpath |-> <<>>, err |-> Err("provider", 0)]}

\* what os.Stat of a returned path may find: -1 an error, else the size
StatResults == {-1, MaxBody}

\* ------------------------------------------------------------------------
\* The handlers of the worker closures
\* ------------------------------------------------------------------------

\* (mutant of cacheMiss: the response does not take the request's ID)
cacheMissNoID(req, i) ==
    [resp |-> progResponse(0, <<>>, TRUE, <<>>, 0, <<>>, i), err |-> NoErr]

\* a miss response; i is the number of the request, kept beside the wire's fields
cacheMiss(req, i) ==
    [resp |-> progResponse(req.ID, <<>>, TRUE, <<>>, 0, <<>>, i), err |-> NoErr]

\* (mutant of cacheHit: the response does not carry the size of the file)
cacheHitNoSize(req, objectId, diskpath, fi, i) ==
    IF fi = -1
    THEN [resp |-> NoResp, err |-> Err("stat", i)]
    ELSE [resp |-> progResponse(req.ID, <<>>, FALSE, objectId, 0, diskpath, i),
          err |-> NoErr]

\* fi is the result of os.Stat(diskpath); the modification time is left out
cacheHit(req, objectId, diskpath, fi, i) ==
    IF fi = -1
    THEN [resp |-> NoResp, err |-> Err("stat", i)]
    ELSE [resp |-> progResponse(req.ID, <<>>, FALSE, objectId, fi, diskpath, i),
          err |-> NoErr]

\* r is what h.provider.Get(enc(req.ActionID)) returned
handleGet(req, r, fi, i) ==
    IF r.err # NoErr THEN [resp |-> NoResp, err |-> Err("get", i)]
    ELSE IF r.objectId = <<>> /\ r.diskpath = <<>> THEN cacheMiss(req, i)
    ELSE IF decFails(r.objectId) THEN [resp |-> NoResp, err |-> Err("dec", i)]
    ELSE cacheHit(req, dec(r.objectId), r.diskpath, fi, i)

\* (mutant of handlePut: the error is not looked at when a path came back)
handlePutPathWins(req, r, i) ==
    IF r.err # NoErr /\ r.diskpath = <<>>
    THEN [resp |-> NoResp, err |-> Err("put", i)]
    ELSE [resp |-> progResponse(req.ID, <<>>, FALSE, <<>>, 0, r.diskpath, i),
          err |-> NoErr]

\* r is what h.provider.Put(enc(req.ActionID), enc(req.OutputID), req.Body) returned
handlePut(req, r, i) ==
    IF r.err # NoErr THEN [resp |-> NoResp, err |-> Err("put", i)]
    ELSE [resp |-> progResponse(req.ID, <<>>, FALSE, <<>>, 0, r.diskpath, i),
          err |-> NoErr]

\* ------------------------------------------------------------------------
\* The local store (package local)
\* ------------------------------------------------------------------------

\* the keys of the store's callers, as the wire carries them: byte strings,
\* the empty one and one that holds the byte of a colon among them
StoreKeys == {<<>>, <<58>>, <<171>>}

\* the payloads of a Put: the bodies of 0..MaxBody bytes
Payloads == {Bytes(n) : n \in 0..MaxBody}

\* a file: whether it exists, and its content
File(data) == [exists |-> TRUE, data |-> data]
NoFile == [exists |-> FALSE, data |-> <<>>]

\* the names the files of the two directories may have
ActionNames == {enc(k) : k \in StoreKeys \ {<<>>}}
ObjectNames == {enc(k) : k \in StoreKeys \ {<<>>}}

\* filepath.Join(p.cacheDir, "action", actionId): for an empty actionId the
\* directory itself
actionPath(actionId) == <<"action">> \o actionId

\* filepath.Join(p.cacheDir, "object", objectId), made absolute
objPath(objectId) == <<"object">> \o objectId

\* what os.Stat reports as the size of a directory
DirSize == 4096

\* os.Stat(objPath(objectId)): the directory for an empty name, else the file
\* of that name if there is one
StatIn(objs, objectId) ==
    IF objectId = <<>> THEN [err |-> FALSE, size |-> DirSize]
    ELSE IF objectId \in ObjectNames /\ objs[objectId].exists
    THEN [err |-> FALSE, size |-> Len(objs[objectId].data)]
    ELSE [err |-> TRUE, size |-> 0]

StatObject(objectId) == StatIn(objects, objectId)

\* (mutant of sizeDiffers: the size of the object is not compared)
sizeDiffersNever(fi, size) == FALSE

\* if fi.Size() != size
sizeDiffers(fi, size) == fi.size # size

\* provider.Get of the local store: the files are read, never written
localGet(actionId) ==
    IF actionId = <<>>
    THEN \* os.ReadFile fails, and not with ErrNotExist: the path is the directory
         failure(Err("read marker", 0))
    ELSE IF actionId \notin ActionNames \/ ~markers[actionId].exists
    THEN notFound
    ELSE LET parts == SplitN(markers[actionId].data)
         IN  IF Len(parts) # 2 THEN notFound
             ELSE LET objectId == parts[1]
                      size == ParseInt(parts[2])
                      fi == StatObject(objectId)
                  IN  IF ~size.ok THEN notFound
                      ELSE IF fi.err THEN notFound
                      ELSE IF sizeDiffers(fi, size.val) THEN notFound
                      ELSE [objectId |-> objectId, diskpath |-> objPath(objectId),
                            err |-> NoErr]

\* (mutant of markerContent: the size comes first)
markerContentSizeFirst(objectId, size) == Decimal(size) \o <<":">> \o objectId

\* (mutant of markerContent: the marker holds the object id alone)
markerContentNoSize(objectId, size) == objectId

\* fmt.Appendf(nil, "%s:%d", objectId, size)
markerContent(objectId, size) == objectId \o <<":">> \o Decimal(size)

\* the prefixes of q that are shorter than q
Prefixes(q) == {SubSeq(q, 1, n) : n \in 0..(Len(q) - 1)}

\* the ways the file system may make a Put fail on the way: io.Copy stops
\* after a part of the body, os.WriteFile fails to open the marker or to write
\* all of it
Faults == {"none", "copy", "marker"}

\* a call of the store and what it returned; afterPut: the call before it
\* was a Put for the same action that returned no error
Call(op, actionId, objectId, body, ret, afterPut) ==
    [op |-> op, actionId |-> actionId, objectId |-> objectId, body |-> body,
     ret |-> ret, afterPut |-> afterPut]
NoCall == Call("none", <<>>, <<>>, <<>>, notFound, FALSE)

PutOK(diskpath) == [objectId |-> <<>>, diskpath |-> diskpath, err |-> NoErr]

\* provider.Put of the local store, called as handlePut calls it
localPut(actionId, objectId, body, fault) ==
    LET ret(r) == last' = Call("put", actionId, objectId, body, r, FALSE)
    IN  IF objectId = <<>>
        THEN \* os.Create fails: the path is the directory
             /\ ret(failure(Err("create", 0)))
             /\ UNCHANGED <<markers, objects>>
        ELSE IF fault = "copy"
        THEN \* io.Copy fails: the file holds a part of the body
             /\ body # <<>>
             /\ \E part \in Prefixes(body) :
                   objects' = [objects EXCEPT ![objectId] = File(part)]
             /\ ret(failure(Err("copy", 0)))
             /\ UNCHANGED markers
        ELSE /\ objects' = [objects EXCEPT ![objectId] = File(body)]
             /\ IF actionId = <<>>
                THEN \* os.WriteFile fails: the path is the directory
                     /\ ret(failure(Err("write marker", 0)))
                     /\ UNCHANGED markers
                ELSE IF fault = "marker"
                THEN \* os.WriteFile fails: the marker is as it was, or
                     \* truncated and written in part
                     /\ \/ UNCHANGED markers
                        \/ \E part \in Prefixes(markerContent(objectId, Len(body))) :
                              markers' = [markers EXCEPT ![actionId] = File(part)]
                     /\ ret(failure(Err("write marker", 0)))
                ELSE /\ markers' =
                          [markers EXCEPT
                             ![actionId] = File(markerContent(objectId, Len(body)))]
                     /\ ret(PutOK(objPath(objectId)))

\* a call of the local store by the worker goroutine of one request, taken
\* one file operation at a time: what it was called with, where it stands,
\* the marker it read and the size it parsed from it, the size it copied,
\* and what handleGet made of a hit
StoreCall(op, pc, actionId, objectId, body, marker, size, h) ==
    [op |-> op, pc |-> pc, actionId |-> actionId, objectId |-> objectId,
     body |-> body, marker |-> marker, size |-> size, h |-> h]
NoHandled == [resp |-> NoResp, err |-> NoErr]
NoStoreCall == StoreCall("none", "idle", <<>>, <<>>, <<>>, NoFile, 0, NoHandled)

\* the store of a fresh cache directory: NewProvider has made the two
\* directories
StoreInit ==
    /\ markers = [a \in ActionNames |-> NoFile]
    /\ objects = [o \in ObjectNames |-> NoFile]
    /\ last = NoCall
    /\ calls = [p \in 1..MaxWorkers |-> NoStoreCall]

\* ------------------------------------------------------------------------
\* The tiered store (package cos): the local store and a remote bucket
\* ------------------------------------------------------------------------

DefaultMinUploadSize == 1024

\* NewProvider: a MinUploadSize that is not positive is the default
NewProviderMinUploadSize(configured) ==
    IF configured <= 0 THEN DefaultMinUploadSize ELSE configured

\* a metadata value that is not there
NoMeta == <<"nil">>

\* an object of the bucket: its metadata and its body
Entry(objectid, size, body) ==
    [exists |-> TRUE, objectid |-> objectid, size |-> size, body |-> body]
NoEntry == [exists |-> FALSE, objectid |-> NoMeta, size |-> NoMeta, body |-> <<>>]

\* a call of the tiered store and what it returned; gets and puts count
\* the calls of GetObject and PutObject it made, promoted: the call before
\* it was a Get for the same action that returned what it promoted, net:
\* how the remote tier answered the call made of it ("none": no call made)
TCall(op, actionId, objectId, body, ret, gets, puts, promoted, net) ==
    [op |-> op, actionId |-> actionId, objectId |-> objectId, body |-> body,
     ret |-> ret, gets |-> gets, puts |-> puts, promoted |-> promoted,
     net |-> net]
NoTCall == TCall("none", <<>>, <<>>, <<>>, notFound, 0, 0, FALSE, "none")

\* no tiered store is in use
TieredIdle ==
    /\ minUploadSize = DefaultMinUploadSize
    /\ remote = [a \in ActionNames |-> NoEntry]
    /\ tlast = NoTCall

\* the remote tier answers a call, or fails it
Nets == {"up", "down"}

\* p.client.GetObject for the key "action/" + actionId
GetObject(actionId, net) ==
    IF net = "down" \/ actionId \notin ActionNames \/ ~remote[actionId].exists
    THEN [err |-> TRUE, res |-> NoEntry]
    ELSE [err |-> FALSE, res |-> remote[actionId]]

lookUpObjectId(metadata) ==
    IF metadata.objectid = NoMeta THEN [val |-> <<>>, found |-> FALSE]
    ELSE [val |-> metadata.objectid, found |-> TRUE]

lookUpSize(metadata) ==
    IF metadata.size = NoMeta \/ ~ParseInt(metadata.size).ok
    THEN [val |-> -1, found |-> FALSE]
    ELSE [val |-> ParseInt(metadata.size).val, found |-> TRUE]

\* (mutant of localHit: the local tier's answer is not used)
localHitNever(objectId, diskpath) == FALSE

\* if objectId != "" && diskpath != ""
localHit(objectId, diskpath) == objectId # <<>> /\ diskpath # <<>>

\* (mutant of promotionFailed: the error of the local Put is returned)
promotionFailedEscalates(err) == failure(err)

\* diskpath, err = p.localProvider.Put(...); if err != nil
promotionFailed(err) == notFound

\* provider.Get of the tiered store
cosGet(actionId, net, fault) ==
    LET l == localGet(actionId)
        promoted == /\ tlast.op = "get"
                    /\ tlast.actionId = actionId
                    /\ tlast.gets = 1
                    /\ tlast.ret.objectId # <<>>
        ret(r, gets) ==
            tlast' = TCall("get", actionId, <<>>, <<>>, r, gets, 0, promoted,
                           IF gets = 0 THEN "none" ELSE net)
        local == /\ last' = Call("get", actionId, <<>>, <<>>, l, FALSE)
                 /\ UNCHANGED <<markers, objects>>
    IN  /\ UNCHANGED <<minUploadSize, remote>>
        /\ IF l.err # NoErr THEN ret(failure(l.err), 0) /\ local
           ELSE IF localHit(l.objectId, l.diskpath) THEN ret(l, 0) /\ local
           ELSE LET got == GetObject(actionId, net)
                    objectId == lookUpObjectId(got.res)
                    size == lookUpSize(got.res)
                IN  IF got.err THEN ret(notFound, 1) /\ local
                    ELSE IF ~objectId.found THEN ret(notFound, 1) /\ local
                    ELSE IF ~size.found THEN ret(notFound, 1) /\ local
                    ELSE /\ localPut(actionId, objectId.val, got.res.body, fault)
                         /\ IF last'.ret.err # NoErr
                            THEN ret(promotionFailed(last'.ret.err), 1)
                            ELSE LET fi == StatIn(objects', objectId.val)
                                 IN  IF fi.err
                                     THEN ret(failure(Err("stat", 0)), 1)
                                     ELSE IF fi.size # size.val
                                     THEN ret(notFound, 1)
                                     ELSE ret([objectId |-> objectId.val,
                                               diskpath |-> last'.ret.diskpath,
                                               err |-> NoErr], 1)

\* (mutant of belowThreshold: a file of the threshold's size is not uploaded)
belowThresholdInclusive(size, min) == size <= min

\* if size < p.config.MinUploadSize
belowThreshold(size, min) == size < min

\* provider.Put of the tiered store
cosPut(actionId, objectId, body, fault, net) ==
    LET ret(diskpath, err, puts) ==
            tlast' = TCall("put", actionId, objectId, body,
                           [objectId |-> <<>>, diskpath |-> diskpath, err |-> err],
                           0, puts, FALSE, IF puts = 0 THEN "none" ELSE net)
    IN  /\ UNCHANGED minUploadSize
        /\ localPut(actionId, objectId, body, fault)
        /\ IF last'.ret.err # NoErr
           THEN ret(<<>>, last'.ret.err, 0) /\ UNCHANGED remote
           ELSE LET diskpath == last'.ret.diskpath
                    fi == StatIn(objects', objectId)
                IN  IF fi.err
                    THEN ret(<<>>, Err("stat", 0), 0) /\ UNCHANGED remote
                    ELSE IF belowThreshold(fi.size, minUploadSize)
                    THEN ret(diskpath, NoErr, 0) /\ UNCHANGED remote
                    ELSE IF net = "down"
                    THEN \* PutObject fails: return diskpath, err
                         ret(diskpath, Err("upload", 0), 1) /\ UNCHANGED remote
                    ELSE /\ remote' =
                              [remote EXCEPT
                                 ![actionId] = Entry(objectId, Decimal(fi.size),
                                                     objects'[objectId].data)]
                         /\ ret(diskpath, NoErr, 1)

\* ------------------------------------------------------------------------
\* Handler.Run
\* ------------------------------------------------------------------------

EngineInit ==
    /\ workers \in 1..MaxWorkers
    /\ pcR = "hs"
    /\ nread = 0
    /\ reqs = <<>>
    /\ tpc = [i \in ReqIdx |-> "none"]
    /\ tresp = [i \in ReqIdx |-> NoResp]
    /\ out = <<>>
    /\ buf = <<>>
    /\ wmu = 0
    /\ werr = FALSE
    /\ gerr = NoErr
    /\ rerr = Running
    /\ gdone = FALSE
    /\ ncloses = 0
    /\ runRet = Running

Init == EngineInit /\ StoreInit /\ TieredIdle

\* the store is used on its own: no session runs
InitStore == Init /\ workers = 1

\* the reader's closure returns err (nil included): its slot is released
ReaderReturns(err) ==
    /\ pcR' = "exit"
    /\ rerr' = err
    /\ gerr' = Record(err)

\* the reader goes on to pc
ReaderGoes(pc) ==
    /\ pcR' = pc
    /\ UNCHANGED <<gerr, rerr>>

\* (mutant of Handshake: the reader is started without the handshake)
HandshakeSkipped ==
    /\ pcR = "hs"
    /\ pcR' = "decode"
    /\ UNCHANGED <<workers, nread, reqs, tpc, tresp, out, buf, wmu, werr, gerr, rerr,
                   gdone, ncloses, runRet>>
    /\ UNCHANGED <<svars, tvars, cvars>>

\* write(&progResponse{ID: 0, KnownCommands: ...}) before the group exists:
\* nothing else runs yet, so lock, Encode, Flush and unlock are one step
Handshake ==
    /\ pcR = "hs"
    /\ \/ /\ out' = out \o <<progResponse(0, KnownCommands, FALSE, <<>>, 0, <<>>, 0)>>
          /\ pcR' = "decode"
          /\ UNCHANGED <<werr, runRet>>
       \/ /\ werr' = TRUE
          /\ pcR' = "exit"
          /\ runRet' = Err("write", 0)
          /\ UNCHANGED out
    /\ UNCHANGED <<workers, nread, reqs, tpc, tresp, buf, wmu, gerr, rerr, gdone,
                   ncloses>>
    /\ UNCHANGED <<svars, tvars, cvars>>

\* (mutant of DecodeEOF: the end of the input is returned as an error)
DecodeEOFIsError ==
    /\ pcR = "decode"
    /\ ReaderReturns(Err("EOF", nread))
    /\ UNCHANGED <<workers, nread, reqs, tpc, tresp, out, buf, wmu, werr, gdone,
                   ncloses, runRet>>
    /\ UNCHANGED <<svars, tvars, cvars>>

\* decoder.Decode(&req) finds the end of the input: the reader returns nil
DecodeEOF ==
    /\ pcR = "decode"
    /\ ReaderReturns(NoErr)
    /\ UNCHANGED <<workers, nread, reqs, tpc, tresp, out, buf, wmu, werr, gdone,
                   ncloses, runRet>>
    /\ UNCHANGED <<svars, tvars, cvars>>

\* decoder.Decode(&req) finds a record that is no request
DecodeGarbage ==
    /\ pcR = "decode"
    /\ nread < MaxRecs
    /\ nread' = nread + 1
    /\ ReaderReturns(Err("failed to decode", nread + 1))
    /\ UNCHANGED <<workers, reqs, tpc, tresp, out, buf, wmu, werr, gdone,
                   ncloses, runRet>>
    /\ UNCHANGED <<svars, tvars, cvars>>

\* (mutant of switchCommand: no default case, an unknown command runs the
\* first case)
switchCommandNoDefault(req) ==
    IF req.Command \in {"put", "close"} THEN req.Command ELSE "get"

\* switch req.Command: the case taken
switchCommand(req) ==
    IF req.Command \in {"get", "put", "close"} THEN req.Command ELSE "default"

\* (mutant of invalidActionID: the check is missing)
invalidActionIDNever(req) == FALSE

\* case "get": if len(req.ActionID) == 0
invalidActionID(req) == Len(req.ActionID) = 0

\* case "put": if len(req.OutputID) == 0
invalidOutputID(req) == Len(req.OutputID) = 0

\* (mutant of sizeMismatch: only a body that is too short is refused)
sizeMismatchShort(req, body) == req.BodySize > Len(body)

\* if req.BodySize != int64(len(body))
sizeMismatch(req, body) == req.BodySize # Len(body)

\* (mutant of hasBody: no body record is read)
hasBodyNever(req) == FALSE

\* case "put": if req.BodySize > 0
hasBody(req) == req.BodySize > 0

\* decoder.Decode(&req) decodes req, and the switch on req.Command up to the
\* next read of the stream, the next g.Go or the return
Decode(req) ==
    /\ pcR = "decode"
    /\ nread < MaxRecs
    /\ nread' = nread + 1
    /\ reqs' = Append(reqs, req)
    /\ CASE switchCommand(req) = "get" ->
              IF invalidActionID(req)
              THEN /\ ReaderReturns(Err("invalid ActionID", nread + 1))
                   /\ UNCHANGED ncloses
              ELSE /\ ReaderGoes("go")
                   /\ UNCHANGED ncloses
         [] switchCommand(req) = "put" ->
              IF invalidOutputID(req)
              THEN /\ ReaderReturns(Err("invalid OutputID", nread + 1))
                   /\ UNCHANGED ncloses
              ELSE /\ ReaderGoes(IF hasBody(req) THEN "body" ELSE "go")
                   /\ UNCHANGED ncloses
         [] switchCommand(req) = "close" ->
              /\ ReaderGoes("close")
              /\ ncloses' = ncloses + 1
         [] OTHER ->
              /\ ReaderReturns(Err("unsupported command", nread + 1))
              /\ UNCHANGED ncloses
    /\ UNCHANGED <<workers, tpc, tresp, out, buf, wmu, werr, gdone, runRet>>
    /\ UNCHANGED <<svars, tvars, cvars>>

\* decoder.Decode(&body) fails: the input ends, or the next record is no
\* JSON string
DecodeBodyFails ==
    /\ pcR = "body"
    /\ \/ /\ nread < MaxRecs
          /\ nread' = nread + 1
       \/ UNCHANGED nread
    /\ ReaderReturns(Err("body", nread'))
    /\ UNCHANGED <<workers, reqs, tpc, tresp, out, buf, wmu, werr, gdone,
                   ncloses, runRet>>
    /\ UNCHANGED <<svars, tvars, cvars>>

\* decoder.Decode(&body) decodes body, and the size check
DecodeBody(body) ==
    /\ pcR = "body"
    /\ nread < MaxRecs
    /\ nread' = nread + 1
    /\ IF sizeMismatch(reqs[cur], body)
       THEN /\ ReaderReturns(Err("size mismatch", nread + 1))
            /\ UNCHANGED reqs
       ELSE /\ reqs' = [reqs EXCEPT ![cur].Body = body]
            /\ ReaderGoes("go")
    /\ UNCHANGED <<workers, tpc, tresp, out, buf, wmu, werr, gdone, ncloses, runRet>>
    /\ UNCHANGED <<svars, tvars, cvars>>

\* the body handed to Provider.Put: bytes.NewReader(nil) when req.Body is nil
BodyOf(req) == IF req.Body = NoBody THEN <<>> ELSE req.Body

\* g.Go(func() error {...}) for the request just decoded: once the pool has a
\* slot the worker starts and enters the provider; after an error of the
\* group the work is not started
Go ==
    /\ pcR = "go"
    /\ GoMayStart
    /\ tpc' = [tpc EXCEPT ![cur] = IF gerr = NoErr THEN "call" ELSE "dropped"]
    /\ reqs' = [reqs EXCEPT ![cur].Body = BodyOf(reqs[cur])]
    /\ ReaderGoes("decode")
    /\ UNCHANGED <<workers, nread, tresp, out, buf, wmu, werr, gdone,
                   ncloses, runRet>>
    /\ UNCHANGED <<svars, tvars, cvars>>

\* a worker's closure returns err
WorkerReturns(i, err) ==
    /\ tpc' = [tpc EXCEPT ![i] = "failed"]
    /\ gerr' = Record(err)

\* the worker's handler returned h: on an error the closure returns it,
\* else it goes on to write(resp)
Handled(i, h) ==
    IF h.err # NoErr
    THEN /\ WorkerReturns(i, h.err)
         /\ UNCHANGED tresp
    ELSE /\ tpc' = [tpc EXCEPT ![i] = "ready"]
         /\ tresp' = [tresp EXCEPT ![i] = h.resp]
         /\ UNCHANGED gerr

\* h.handleGet(&req) of the worker of request i returns
GetReturns(i) ==
    /\ tpc[i] = "call"
    /\ reqs[i].Command = "get"
    /\ \E r \in ProviderGet(enc(reqs[i].ActionID)), fi \in StatResults :
          Handled(i, handleGet(reqs[i], r, fi, i))
    /\ UNCHANGED <<workers, pcR, nread, reqs, out, buf, wmu, werr, rerr, gdone,
                   ncloses, runRet>>
    /\ UNCHANGED <<svars, tvars, cvars>>

\* h.handlePut(&req) of the worker of request i returns
PutReturns(i) ==
    /\ tpc[i] = "call"
    /\ reqs[i].Command = "put"
    /\ \E r \in ProviderPut(enc(reqs[i].ActionID), enc(reqs[i].OutputID),
                              reqs[i].Body) :
          Handled(i, handlePut(reqs[i], r, i))
    /\ UNCHANGED <<workers, pcR, nread, reqs, out, buf, wmu, werr, rerr, gdone,
                   ncloses, runRet>>
    /\ UNCHANGED <<svars, tvars, cvars>>

\* (mutant of Lock: Encode without holding the mutex)
LockNoMutex(i) ==
    /\ tpc[i] = "ready"
    /\ IF werr
       THEN /\ WorkerReturns(i, Err("write", i))
            /\ UNCHANGED <<wmu, buf>>
       ELSE /\ wmu' = i
            /\ buf' = Append(buf, tresp[i])
            /\ tpc' = [tpc EXCEPT ![i] = "writing"]
            /\ UNCHANGED gerr
    /\ UNCHANGED <<workers, pcR, nread, reqs, tresp, out, werr, rerr, gdone,
                   ncloses, runRet>>
    /\ UNCHANGED <<svars, tvars, cvars>>

\* write(resp), first half: writeMutex.Lock() and encoder.Encode(v) into the
\* bufio.Writer, which fails once the writer has failed
Lock(i) ==
    /\ tpc[i] = "ready"
    /\ wmu = 0
    /\ IF werr
       THEN /\ WorkerReturns(i, Err("write", i))
            /\ UNCHANGED <<wmu, buf>>
       ELSE /\ wmu' = i
            /\ buf' = Append(buf, tresp[i])
            /\ tpc' = [tpc EXCEPT ![i] = "writing"]
            /\ UNCHANGED gerr
    /\ UNCHANGED <<workers, pcR, nread, reqs, tresp, out, werr, rerr, gdone,
                   ncloses, runRet>>
    /\ UNCHANGED <<svars, tvars, cvars>>

\* write(resp), second half: writer.Flush() and the deferred Unlock; the
\* closure returns what write returned
Flush(i) ==
    /\ tpc[i] = "writing"
    /\ wmu' = 0
    /\ \/ /\ out' = out \o buf
          /\ buf' = <<>>
          /\ tpc' = [tpc EXCEPT ![i] = "done"]
          /\ UNCHANGED <<werr, gerr>>
       \/ /\ werr' = TRUE
          /\ WorkerReturns(i, Err("write", i))
          /\ UNCHANGED <<out, buf>>
    /\ UNCHANGED <<workers, pcR, nread, reqs, tresp, rerr, gdone, ncloses, runRet>>
    /\ UNCHANGED <<svars, tvars, cvars>>

\* (mutant of CloseReturns: the result of handleClose is not returned, the
\* reader loop goes on with the next record)
CloseGoesOn ==
    /\ pcR = "close"
    /\ ReaderGoes("decode")
    /\ gdone' = TRUE
    /\ UNCHANGED <<workers, nread, reqs, tpc, tresp, out, buf, wmu, werr,
                   ncloses, runRet>>
    /\ UNCHANGED <<svars, tvars, cvars>>

\* h.handleClose(&req) returns what h.provider.Close() returned, then the
\* deferred g.Done()
CloseReturns ==
    /\ pcR = "close"
    /\ \E err \in {NoErr, Err("close", nread)} : ReaderReturns(err)
    /\ gdone' = TRUE
    /\ UNCHANGED <<workers, nread, reqs, tpc, tresp, out, buf, wmu, werr,
                   ncloses, runRet>>
    /\ UNCHANGED <<svars, tvars, cvars>>

\* (mutant of Return: Run returns when the reader has, without waiting for
\* the workers)
ReturnEarly ==
    /\ runRet = Running
    /\ pcR = "exit"
    /\ runRet' = gerr
    /\ UNCHANGED <<workers, pcR, nread, reqs, tpc, tresp, out, buf, wmu, werr,
                   gerr, rerr, gdone, ncloses>>
    /\ UNCHANGED <<svars, tvars, cvars>>

\* (mutant of Return: the error of the group is not returned)
ReturnNil ==
    /\ runRet = Running
    /\ WaitReturns
    /\ runRet' = NoErr
    /\ UNCHANGED <<workers, pcR, nread, reqs, tpc, tresp, out, buf, wmu, werr,
                   gerr, rerr, gdone, ncloses>>
    /\ UNCHANGED <<svars, tvars, cvars>>

\* (mutant of Return: Run closes the provider itself before it returns)
ReturnClosesProvider ==
    /\ runRet = Running
    /\ WaitReturns
    /\ runRet' = gerr
    /\ ncloses' = ncloses + 1
    /\ UNCHANGED <<workers, pcR, nread, reqs, tpc, tresp, out, buf, wmu, werr,
                   gerr, rerr, gdone>>
    /\ UNCHANGED <<svars, tvars, cvars>>

\* return g.Wait()
Return ==
    /\ runRet = Running
    /\ WaitReturns
    /\ runRet' = gerr
    /\ UNCHANGED <<workers, pcR, nread, reqs, tpc, tresp, out, buf, wmu, werr,
                   gerr, rerr, gdone, ncloses>>
    /\ UNCHANGED <<svars, tvars, cvars>>

Next ==
    \/ Handshake
    \/ DecodeEOF
    \/ DecodeGarbage
    \/ \E req \in Requests(cur + 1) : Decode(req)
    \/ DecodeBodyFails
    \/ \E body \in Bodies : DecodeBody(body)
    \/ Go
    \/ \E i \in ReqIdx : GetReturns(i)
    \/ \E i \in ReqIdx : PutReturns(i)
    \/ \E i \in ReqIdx : Lock(i)
    \/ \E i \in ReqIdx : Flush(i)
    \/ CloseReturns
    \/ Return

Spec == Init /\ [][Next]_vars

\* decoder.Decode returns: the input stream is finite, so every read of the
\* reader ends with a record, a failure or EOF
ReadStep ==
    \/ DecodeEOF
    \/ DecodeGarbage
    \/ \E req \in Requests(cur + 1) : Decode(req)
    \/ DecodeBodyFails
    \/ \E body \in Bodies : DecodeBody(body)

\* every goroutine that can take a step takes it in the end: the write of
\* the handshake, the reads, g.Go once the pool has a slot, every call of the
\* provider, every wait for the mutex and every flush return, and so do
\* Close and g.Wait
Fairness ==
    /\ WF_vars(Handshake)
    /\ WF_vars(ReadStep)
    /\ WF_vars(Go)
    /\ \A i \in ReqIdx :
          /\ WF_vars(GetReturns(i))
          /\ WF_vars(PutReturns(i))
          /\ WF_vars(Lock(i))
          /\ WF_vars(Flush(i))
    /\ WF_vars(CloseReturns)
    /\ WF_vars(Return)

SpecLive == Init /\ [][Next]_vars /\ Fairness

\* ------------------------------------------------------------------------
\* The local store on its own: calls one after the other, and changes of the
\* object files made behind the store's back
\* ------------------------------------------------------------------------

\* h.provider.Put(enc(req.ActionID), enc(req.OutputID), req.Body)
StorePut(actionKey, objectKey, body, fault) ==
    /\ localPut(enc(actionKey), enc(objectKey), body, fault)
    /\ UNCHANGED <<evars, tvars, cvars>>

\* h.provider.Get(enc(req.ActionID))
StoreGet(actionKey) ==
    /\ last' = Call("get", enc(actionKey), <<>>, <<>>, localGet(enc(actionKey)),
                    /\ last.op = "put"
                    /\ last.ret.err = NoErr
                    /\ last.actionId = enc(actionKey))
    /\ UNCHANGED <<markers, objects>>
    /\ UNCHANGED <<evars, tvars, cvars>>

\* an object file is removed out of band
RemoveObject(objectId) ==
    /\ objects[objectId].exists
    /\ objects' = [objects EXCEPT ![objectId] = NoFile]
    /\ last' = Call("remove", <<>>, objectId, <<>>, notFound, FALSE)
    /\ UNCHANGED markers
    /\ UNCHANGED <<evars, tvars, cvars>>

\* an object file is truncated or replaced out of band
ReplaceObject(objectId, data) ==
    /\ objects[objectId].exists
    /\ objects[objectId].data # data
    /\ objects' = [objects EXCEPT ![objectId] = File(data)]
    /\ last' = Call("replace", <<>>, objectId, data, notFound, FALSE)
    /\ UNCHANGED markers
    /\ UNCHANGED <<evars, tvars, cvars>>

NextStore ==
    \/ \E a, o \in StoreKeys, body \in Payloads, fault \in Faults :
          StorePut(a, o, body, fault)
    \/ \E a \in StoreKeys : StoreGet(a)
    \/ \E o \in ObjectNames : RemoveObject(o)
    \/ \E o \in ObjectNames, data \in Payloads : ReplaceObject(o, data)

SpecStore == InitStore /\ [][NextStore]_vars

\* ------------------------------------------------------------------------
\* The local store over marker files of any content: a marker is written
\* by a Put, or out of band
\* ------------------------------------------------------------------------

\* what a marker file may hold: nothing, no colon, no size, a size that is
\* no number, a second colon, a negative size, no object id, and what a Put
\* writes
MarkerContents ==
    {<<>>,
     <<"3", "a">>,
     <<"3", "a", ":">>,
     <<"3", "a", ":", "x">>,
     <<"3", "a", ":", "0", "x">>,
     <<"3", "a", ":", "0", ":", "0">>,
     <<"3", "a", ":", "-", "1">>,
     <<":", "0">>}
    \cup {markerContent(enc(<<58>>), n) : n \in 0..MaxBody}

\* a marker file is written out of band
ReplaceMarker(actionId, data) ==
    /\ markers[actionId] # File(data)
    /\ markers' = [markers EXCEPT ![actionId] = File(data)]
    /\ last' = Call("marker", actionId, <<>>, data, notFound, FALSE)
    /\ UNCHANGED objects
    /\ UNCHANGED <<evars, tvars, cvars>>

NextMarker ==
    \/ \E a \in StoreKeys, body \in Payloads : StorePut(a, <<58>>, body, "none")
    \/ \E a \in StoreKeys : StoreGet(a)
    \/ \E a \in ActionNames, data \in MarkerContents : ReplaceMarker(a, data)
    \/ \E o \in ObjectNames : RemoveObject(o)

SpecMarker == InitStore /\ [][NextMarker]_vars

\* ------------------------------------------------------------------------
\* A session of the engine over the local store: a call of the store by a
\* worker is one step
\* ------------------------------------------------------------------------

\* os.Stat(diskpath) of cacheHit: -1 an error, else the size
StatPath(diskpath) ==
    LET fi == StatIn(objects, Tail(diskpath))
    IN  IF fi.err THEN -1 ELSE fi.size

\* h.handleGet(&req) of the worker of request i, the provider being the
\* local store
LocalGetReturns(i) ==
    /\ tpc[i] = "call"
    /\ reqs[i].Command = "get"
    /\ LET r == localGet(enc(reqs[i].ActionID))
       IN  /\ last' = Call("get", enc(reqs[i].ActionID), <<>>, <<>>, r, FALSE)
           /\ Handled(i, handleGet(reqs[i], r,
                                   IF r.diskpath = <<>> THEN -1
                                   ELSE StatPath(r.diskpath), i))
    /\ UNCHANGED <<workers, pcR, nread, reqs, out, buf, wmu, werr, rerr, gdone,
                   ncloses, runRet>>
    /\ UNCHANGED <<markers, objects, tvars, cvars>>

\* h.handlePut(&req) of the worker of request i, the provider being the
\* local store
LocalPutReturns(i, fault) ==
    /\ tpc[i] = "call"
    /\ reqs[i].Command = "put"
    /\ localPut(enc(reqs[i].ActionID), enc(reqs[i].OutputID), reqs[i].Body, fault)
    /\ Handled(i, handlePut(reqs[i], last'.ret, i))
    /\ UNCHANGED <<workers, pcR, nread, reqs, out, buf, wmu, werr, rerr, gdone,
                   ncloses, runRet>>
    /\ UNCHANGED <<tvars, cvars>>

NextSession ==
    \/ Handshake
    \/ DecodeEOF
    \/ DecodeGarbage
    \/ \E req \in Requests(cur + 1) : Decode(req)
    \/ DecodeBodyFails
    \/ \E body \in Bodies : DecodeBody(body)
    \/ Go
    \/ \E i \in ReqIdx : LocalGetReturns(i)
    \/ \E i \in ReqIdx, fault \in Faults : LocalPutReturns(i, fault)
    \/ \E i \in ReqIdx : Lock(i)
    \/ \E i \in ReqIdx : Flush(i)
    \/ CloseReturns
    \/ Return

SpecSession == Init /\ [][NextSession]_vars

\* ------------------------------------------------------------------------
\* The tiered store on its own: calls one after the other, and changes of
\* the bucket made by others
\* ------------------------------------------------------------------------

\* the tiered store of a fresh cache directory, configured with a
\* MinUploadSize of 0 (the default is taken), 1, ...
InitTiered ==
    /\ EngineInit
    /\ workers = 1
    /\ StoreInit
    /\ \E configured \in 0..MaxBody :
          minUploadSize = NewProviderMinUploadSize(configured)
    /\ remote = [a \in ActionNames |-> NoEntry]
    /\ tlast = NoTCall

\* the objects another writer may leave in the bucket: without the object
\* id or with an empty one, with a size that is missing, no number or not
\* the size of the body, and as a Put uploads them
RemoteEntries ==
    {Entry(NoMeta, Decimal(0), <<>>), Entry(<<>>, Decimal(0), <<>>)}
    \cup {Entry(enc(<<58>>), n, body) :
             n \in {NoMeta, <<"x">>} \cup {Decimal(k) : k \in 0..MaxBody},
             body \in Payloads}

\* the keys of the tiered store's callers: empty or not
TieredKeys == {<<>>, <<58>>}

\* the ways the local tier may fail a write of the tiered store
TieredFaults == {"none", "copy"}

\* h.provider.Put(enc(req.ActionID), enc(req.OutputID), req.Body)
TieredPut(actionKey, objectKey, body, fault, net) ==
    /\ cosPut(enc(actionKey), enc(objectKey), body, fault, net)
    /\ UNCHANGED <<evars, cvars>>

\* h.provider.Get(enc(req.ActionID))
TieredGet(actionKey, net, fault) ==
    /\ cosGet(enc(actionKey), net, fault)
    /\ UNCHANGED <<evars, cvars>>

\* another machine writes an object of the bucket
RemoteWrite(actionId, entry) ==
    /\ remote[actionId] # entry
    /\ remote' = [remote EXCEPT ![actionId] = entry]
    /\ tlast' = TCall("remote", actionId, <<>>, <<>>, notFound, 0, 0, FALSE,
                      "none")
    /\ UNCHANGED <<minUploadSize, svars, evars, cvars>>

NextTiered ==
    \/ \E a, o \in TieredKeys, body \in Payloads, fault \in TieredFaults,
          net \in Nets :
          TieredPut(a, o, body, fault, net)
    \/ \E a \in TieredKeys, net \in Nets, fault \in TieredFaults :
          TieredGet(a, net, fault)
    \/ \E entry \in RemoteEntries : RemoteWrite(enc(<<58>>), entry)

SpecTiered == InitTiered /\ [][NextTiered]_vars

\* ------------------------------------------------------------------------
\* The local store under concurrent calls: the workers of a session call
\* Get and Put at the same time, and every file operation of a call is a
\* step of its own
\* ------------------------------------------------------------------------

\* the worker goroutines that may be inside the store at the same time
Callers == 1..workers

\* the call of goroutine p has returned, or p has made none
CallOver(p) == calls[p].pc \in {"idle", "miss", "answered", "failed", "put"}

\* the object key the concurrent callers use
SharedObjectKey == <<58>>

\* a write of data at offset 0 of a file that holds old
WriteAt0(old, data) == data \o SubSeq(old, Len(data) + 1, Len(old))

\* the worker of a get enters h.provider.Get(enc(req.ActionID))
StartGet(p, actionKey) ==
    /\ CallOver(p)
    /\ calls' = [calls EXCEPT ![p] =
                    StoreCall("get", "read", enc(actionKey), <<>>, <<>>, NoFile, 0,
                              NoHandled)]
    /\ UNCHANGED <<evars, svars, tvars>>

\* Get: os.ReadFile of the marker, strings.SplitN and strconv.ParseInt
ReadMarker(p) ==
    /\ calls[p].pc = "read"
    /\ LET m == markers[calls[p].actionId]
           parts == SplitN(m.data)
           miss == [calls[p] EXCEPT !.pc = "miss", !.marker = m]
       IN  calls' = [calls EXCEPT ![p] =
              IF ~m.exists THEN miss
              ELSE IF Len(parts) # 2 THEN miss
              ELSE IF ~ParseInt(parts[2]).ok THEN miss
              ELSE [calls[p] EXCEPT !.pc = "stat", !.marker = m,
                                    !.objectId = parts[1],
                                    !.size = ParseInt(parts[2]).val]]
    /\ UNCHANGED <<evars, svars, tvars>>

\* Get: os.Stat of the object file and the comparison of the sizes; the
\* call returns a miss, or objectId and diskpath
StatObjectFile(p) ==
    /\ calls[p].pc = "stat"
    /\ LET fi == StatObject(calls[p].objectId)
       IN  calls' = [calls EXCEPT ![p].pc =
              IF fi.err \/ sizeDiffers(fi, calls[p].size) THEN "miss" ELSE "hit"]
    /\ UNCHANGED <<evars, svars, tvars>>

\* handleGet goes on with what Get returned: cacheHit calls os.Stat(diskpath)
\* and makes the response
HandleGetHit(p) ==
    /\ calls[p].pc = "hit"
    /\ LET fi == StatObject(calls[p].objectId)
           h == handleGet(progRequest(IdAt(p), "get", dec(calls[p].actionId), <<>>, 0),
                          [objectId |-> calls[p].objectId,
                           diskpath |-> objPath(calls[p].objectId),
                           err |-> NoErr],
                          IF fi.err THEN -1 ELSE fi.size, p)
       IN  calls' = [calls EXCEPT ![p].h = h,
                                  ![p].pc = IF h.err = NoErr THEN "answered"
                                            ELSE "failed"]
    /\ UNCHANGED <<evars, svars, tvars>>

\* the worker of a put enters h.provider.Put(enc(req.ActionID),
\* enc(req.OutputID), req.Body)
StartPut(p, actionKey, objectKey, body) ==
    /\ CallOver(p)
    /\ calls' = [calls EXCEPT ![p] =
                    StoreCall("put", "create", enc(actionKey), enc(objectKey), body,
                              NoFile, 0, NoHandled)]
    /\ UNCHANGED <<evars, svars, tvars>>

\* Put: os.Create(diskpath) makes the file, or truncates the one that is
\* there
CreateObject(p) ==
    /\ calls[p].pc = "create"
    /\ objects' = [objects EXCEPT ![calls[p].objectId] = File(<<>>)]
    /\ calls' = [calls EXCEPT ![p].pc = "copy"]
    /\ UNCHANGED <<evars, markers, last, tvars>>

\* Put: io.Copy(file, body) writes the body from the start of the file
CopyBody(p) ==
    /\ calls[p].pc = "copy"
    /\ objects' = [objects EXCEPT ![calls[p].objectId] =
                      File(WriteAt0(objects[calls[p].objectId].data, calls[p].body))]
    /\ calls' = [calls EXCEPT ![p].pc = "open", ![p].size = Len(calls[p].body)]
    /\ UNCHANGED <<evars, markers, last, tvars>>

\* Put: os.WriteFile opens the marker with O_WRONLY|O_CREATE|O_TRUNC
TruncateMarker(p) ==
    /\ calls[p].pc = "open"
    /\ markers' = [markers EXCEPT ![calls[p].actionId] = File(<<>>)]
    /\ calls' = [calls EXCEPT ![p].pc = "write"]
    /\ UNCHANGED <<evars, objects, last, tvars>>

\* Put: os.WriteFile writes objectId:size and closes; the call returns
\* diskpath
WriteMarker(p) ==
    /\ calls[p].pc = "write"
    /\ markers' = [markers EXCEPT ![calls[p].actionId] =
                      File(WriteAt0(markers[calls[p].actionId].data,
                                    markerContent(calls[p].objectId, calls[p].size)))]
    /\ calls' = [calls EXCEPT ![p].pc = "put"]
    /\ UNCHANGED <<evars, objects, last, tvars>>

NextConcurrent ==
    \/ \E p \in Callers, a \in StoreKeys \ {<<>>} : StartGet(p, a)
    \/ \E p \in Callers : ReadMarker(p)
    \/ \E p \in Callers : StatObjectFile(p)
    \/ \E p \in Callers : HandleGetHit(p)
    \/ \E p \in Callers, a \in StoreKeys \ {<<>>}, body \in Payloads :
          StartPut(p, a, SharedObjectKey, body)
    \/ \E p \in Callers : CreateObject(p)
    \/ \E p \in Callers : CopyBody(p)
    \/ \E p \in Callers : TruncateMarker(p)
    \/ \E p \in Callers : WriteMarker(p)

SpecConcurrent == Init /\ [][NextConcurrent]_vars

\* ------------------------------------------------------------------------
\* A session over the tiered store: every call of the store is one step
\* ------------------------------------------------------------------------

InitTieredSession ==
    /\ EngineInit
    /\ StoreInit
    /\ \E configured \in 0..MaxBody :
          minUploadSize = NewProviderMinUploadSize(configured)
    /\ remote = [a \in ActionNames |-> NoEntry]
    /\ tlast = NoTCall

\* h.handleGet(&req) of the worker of request i, the provider being the
\* tiered store
TieredGetReturns(i, net, fault) ==
    /\ tpc[i] = "call"
    /\ reqs[i].Command = "get"
    /\ cosGet(enc(reqs[i].ActionID), net, fault)
    /\ Handled(i, handleGet(reqs[i], tlast'.ret,
                            IF tlast'.ret.diskpath = <<>> THEN -1
                            ELSE LET fi == StatIn(objects', Tail(tlast'.ret.diskpath))
                                 IN  IF fi.err THEN -1 ELSE fi.size, i))
    /\ UNCHANGED <<workers, pcR, nread, reqs, out, buf, wmu, werr, rerr, gdone,
                   ncloses, runRet>>
    /\ UNCHANGED cvars

\* h.handlePut(&req) of the worker of request i, the provider being the
\* tiered store
TieredPutReturns(i, fault, net) ==
    /\ tpc[i] = "call"
    /\ reqs[i].Command = "put"
    /\ cosPut(enc(reqs[i].ActionID), enc(reqs[i].OutputID), reqs[i].Body,
              fault, net)
    /\ Handled(i, handlePut(reqs[i], tlast'.ret, i))
    /\ UNCHANGED <<workers, pcR, nread, reqs, out, buf, wmu, werr, rerr, gdone,
                   ncloses, runRet>>
    /\ UNCHANGED cvars

NextTieredSession ==
    \/ Handshake
    \/ DecodeEOF
    \/ DecodeGarbage
    \/ \E req \in Requests(cur + 1) : Decode(req)
    \/ DecodeBodyFails
    \/ \E body \in Bodies : DecodeBody(body)
    \/ Go
    \/ \E i \in ReqIdx, net \in Nets, fault \in TieredFaults :
          TieredGetReturns(i, net, fault)
    \/ \E i \in ReqIdx, fault \in TieredFaults, net \in Nets :
          TieredPutReturns(i, fault, net)
    \/ \E i \in ReqIdx : Lock(i)
    \/ \E i \in ReqIdx : Flush(i)
    \/ CloseReturns
    \/ Return

SpecTieredSession == InitTieredSession /\ [][NextTieredSession]_vars

\* ------------------------------------------------------------------------
\* Properties of the engine
\* ------------------------------------------------------------------------

Returned == runRet # Running

\* the places of the output stream that hold a response to request i
Responses(i) == {k \in 1..Len(out) : out[k].req = i}

\* the requests decoded so far that ask for a storage operation
StorageReqs == {i \in 1..Len(reqs) : reqs[i].Command \in {"get", "put"}}

InCall == {i \in ReqIdx : tpc[i] = "call"}

HandshakeRecord == progResponse(0, KnownCommands, FALSE, <<>>, 0, <<>>, 0)

\* C1: at most `workers` workers are inside Provider.Get or Provider.Put at
\* the same time, and the pool of workers + 1 slots is never exceeded, the
\* running reader loop counted as one
C1_BoundedConcurrency ==
    /\ Cardinality(InCall) <= workers
    /\ Cardinality(InFlight) + (IF ReaderRuns THEN 1 ELSE 0) <= workers + 1

\* more requests than workers: the reader waits in g.Go with every worker
\* inside the provider
C1_Witness ==
    /\ workers >= 2
    /\ pcR = "go"
    /\ Cardinality(InCall) = workers

\* C2: when Run has returned in a session that read close and in which no
\* worker failed, every get and put read before the close has its response
\* on the output stream
C2_DrainOnClose ==
    (Returned /\ ncloses > 0 /\ \A i \in ReqIdx : tpc[i] # "failed")
        => \A i \in StorageReqs : Cardinality(Responses(i)) = 1

C2_Witness ==
    /\ Returned
    /\ ncloses = 1
    /\ Cardinality(StorageReqs) >= 2
    /\ \A i \in StorageReqs : tpc[i] = "done"

\* C3: the handshake (ID 0, the known commands) is the first record of the
\* output stream, it is there once, and it is there before the first record
\* of the input is decoded
C3_HandshakeFirst ==
    /\ out # <<>> => out[1] = HandshakeRecord
    /\ \A k \in 2..Len(out) : out[k].KnownCommands = <<>> /\ out[k].req # 0
    /\ (nread > 0 \/ reqs # <<>> \/ ReaderRuns) => out # <<>>

C3_Witness ==
    /\ nread = MaxRecs
    /\ Len(out) >= 3

\* C4: at most one worker is between Lock and Unlock of write, the buffer
\* holds nothing but the record of the worker that holds the mutex, and every
\* record of the output stream is one whole response, written once
C4_ResponseAtomicity ==
    /\ Cardinality({i \in ReqIdx : tpc[i] = "writing"}) <= 1
    /\ \A i \in ReqIdx : tpc[i] = "writing" <=> wmu = i
    /\ wmu # 0 => buf = <<tresp[wmu]>>
    /\ (wmu = 0 /\ ~werr) => buf = <<>>
    /\ \A k \in 2..Len(out) :
          /\ out[k].req \in ReqIdx
          /\ out[k] = tresp[out[k].req]
          /\ Responses(out[k].req) = {k}

\* one worker holds the mutex while another waits for it
C4_Witness ==
    \E i, j \in ReqIdx : tpc[i] = "writing" /\ tpc[j] = "ready"

\* C5: every response but the handshake answers a get or put that was read
\* and carries its ID, no request is answered twice, a get is answered by a
\* miss or a hit and a put by a path; and when Run has returned nil every get
\* and put that was read has its response
C5_Correlation ==
    /\ \A k \in 2..Len(out) :
          /\ out[k].req \in StorageReqs
          /\ out[k].ID = reqs[out[k].req].ID
          /\ Responses(out[k].req) = {k}
          /\ reqs[out[k].req].Command = "put" =>
                (~out[k].Miss /\ out[k].OutputID = <<>> /\ out[k].DiskPath # <<>>)
          /\ reqs[out[k].req].Command = "get" =>
                (out[k].Miss \/ (out[k].OutputID # <<>> /\ out[k].DiskPath # <<>>))
    /\ runRet = NoErr =>
          \A i \in StorageReqs : Cardinality(Responses(i)) = 1

\* two requests in flight together, answered in the other order
C5_Witness ==
    /\ runRet = NoErr
    /\ Len(out) = 3
    /\ out[2].req = 2 /\ out[2].Miss
    /\ out[3].req = 1

\* a put that declares a body and whose body record the reader is past
PutsWithBody ==
    {i \in 1..Len(reqs) :
        /\ reqs[i].Command = "put"
        /\ reqs[i].OutputID # <<>>
        /\ reqs[i].BodySize > 0
        /\ ~(i = cur /\ pcR = "body")}

\* the session is over for the reader with error e, raised at the last record
\* consumed, and Run does not return nil
ReaderFailedWith(e) ==
    /\ pcR = "exit"
    /\ rerr = Err(e, nread)
    /\ gerr # NoErr
    /\ Returned => runRet # NoErr

\* C6: a put that declares BodySize > 0 either got a body of that size, which
\* is the body handed to Provider.Put, or it is the last request decoded, the
\* reader has returned an error at its body record, no worker was started for
\* it, nothing was consumed after it, and Run does not return nil
C6_FatalPayloadMismatch ==
    \A i \in PutsWithBody :
        \/ /\ reqs[i].Body # NoBody
           /\ Len(reqs[i].Body) = reqs[i].BodySize
        \/ /\ i = cur
           /\ reqs[i].Body = NoBody
           /\ tpc[i] = "none"
           /\ Responses(i) = {}
           /\ ReaderFailedWith("size mismatch") \/ ReaderFailedWith("body")

\* a body longer than declared, while an earlier request is still being served
C6_Witness ==
    /\ rerr.e = "size mismatch"
    /\ Returned
    /\ cur = 2
    /\ tpc[1] = "done"

\* C7: a request with an unknown command is the last record consumed: the
\* reader has returned the error, no worker was started for it, and Run does
\* not return nil
C7_UnknownCommand ==
    \A i \in 1..Len(reqs) :
        reqs[i].Command \notin {"get", "put", "close"} =>
            /\ i = cur
            /\ tpc[i] = "none"
            /\ Responses(i) = {}
            /\ ReaderFailedWith("unsupported command")

C7_Witness ==
    /\ rerr.e = "unsupported command"
    /\ runRet = rerr
    /\ cur = 2
    /\ tpc[1] = "done"

\* C8: a get with an empty ActionID and a put with an empty OutputID are the
\* last record consumed: the reader has returned the error, no worker was
\* started and no response written for the request, and Run does not return
\* nil
C8_EmptyKey ==
    \A i \in 1..Len(reqs) :
        /\ (reqs[i].Command = "get" /\ reqs[i].ActionID = <<>>) =>
              /\ i = cur
              /\ tpc[i] = "none"
              /\ Responses(i) = {}
              /\ ReaderFailedWith("invalid ActionID")
        /\ (reqs[i].Command = "put" /\ reqs[i].OutputID = <<>>) =>
              /\ i = cur
              /\ tpc[i] = "none"
              /\ Responses(i) = {}
              /\ ReaderFailedWith("invalid OutputID")

C8_Witness ==
    /\ Returned
    /\ runRet.e \in {"invalid ActionID", "invalid OutputID"}
    /\ cur = 2
    /\ tpc[1] = "done"

\* the puts decoded so far whose body record the reader has consumed
BodiesRead ==
    {i \in 1..Len(reqs) :
        /\ reqs[i].Command = "put"
        /\ reqs[i].OutputID # <<>>
        /\ reqs[i].BodySize > 0
        /\ reqs[i].Body # NoBody}

\* the reader has returned at the end of the input, found where a request
\* record would begin: every record consumed is a request that was handed
\* to a worker, or the body of one
EOFAtBoundary ==
    /\ pcR = "exit"
    /\ rerr # Running
    /\ ncloses = 0
    /\ \A i \in 1..Len(reqs) : tpc[i] # "none"
    /\ nread = Len(reqs) + Cardinality(BodiesRead)

\* C15: when the reader has met the end of the input at a record boundary
\* it has returned nil; if no worker failed, Run returns nil, and it has
\* not returned before every request read has its response on the output
C15_EOFCleanShutdown ==
    EOFAtBoundary =>
        /\ rerr = NoErr
        /\ (\A i \in ReqIdx : tpc[i] # "failed") =>
              /\ gerr = NoErr
              /\ Returned =>
                    /\ runRet = NoErr
                    /\ \A i \in StorageReqs : Cardinality(Responses(i)) = 1

\* the input ends after two requests and a body; Run has returned nil
C15_Witness ==
    /\ EOFAtBoundary
    /\ runRet = NoErr
    /\ Len(reqs) = 2
    /\ BodiesRead # {}
    /\ \A i \in 1..2 : tpc[i] = "done"

\* C17 (as claimed): while Provider.Close runs no worker started earlier is
\* inside Provider.Get or Provider.Put or on its way to the output, and Run
\* returns what Close returned
C17_CloseAfterWorkers ==
    /\ pcR = "close" => InFlight = {}
    /\ (Returned /\ ncloses > 0 /\ \A i \in ReqIdx : tpc[i] # "failed")
          => runRet = rerr

\* C18 (as claimed): once a worker has returned an error the reader loop
\* consumes no record any more and no worker is started
C18_EscalationStopsNewWork ==
    [][(\E i \in ReqIdx : tpc[i] = "failed")
       => /\ nread' = nread
          /\ reqs' = reqs
          /\ \A j \in ReqIdx : tpc[j] = "none" => tpc'[j] # "call"]_vars

\* the errors a worker or the reader has returned so far
WorkerFailed(i) == tpc[i] = "failed"
ReaderFailed == rerr \notin {Running, NoErr}

\* C19: the group keeps the error of the task that fails first and no later
\* one replaces it; Run returns the error the group holds; and Run does not
\* return nil when a worker or the reader has returned an error
C19_FirstError ==
    [][/\ gerr # NoErr => gerr' = gerr
       /\ \A i \in ReqIdx :
             (gerr = NoErr /\ ~WorkerFailed(i) /\ WorkerFailed(i)')
                => (gerr' # NoErr /\ gerr'.at = i /\ gerr' # rerr')
       /\ (gerr = NoErr /\ ~ReaderFailed /\ ReaderFailed') => gerr' = rerr'
       /\ (~Returned /\ Returned' /\ pcR = "exit") => runRet' = gerr
       /\ (Returned' /\ (ReaderFailed' \/ \E i \in ReqIdx : WorkerFailed(i)'))
             => runRet' # NoErr]_vars

\* a worker failed first, then the reader: Run returned the worker's error
C19_Witness ==
    /\ Returned
    /\ ReaderFailed
    /\ \E i \in ReqIdx : WorkerFailed(i) /\ runRet.at = i /\ runRet # rerr

\* C20: the input is consumed by the reader alone, one record at a time;
\* after a put with BodySize > 0 the next record is consumed as its body,
\* before another request is decoded and before a worker is started for the
\* put; the worker is handed that body, of BodySize bytes; a put with
\* BodySize = 0 consumes no body record and its worker is handed the empty
\* body
C20_StreamOrderFraming ==
    [][/\ nread' # nread => (pcR \in {"decode", "body"} /\ nread' = nread + 1)
       /\ \A i \in 1..Len(reqs') :
             (reqs'[i].Command = "put" /\ reqs'[i].OutputID # <<>>
                /\ (i > Len(reqs) \/ reqs'[i] # reqs[i]))
             => /\ i = Len(reqs')
                /\ tpc[i] = "none"
                /\ IF i > Len(reqs)
                   THEN \* the put is decoded
                        /\ reqs'[i].Body = NoBody
                        /\ pcR' = (IF reqs'[i].BodySize > 0 THEN "body" ELSE "go")
                   ELSE IF pcR = "body"
                   THEN \* its body is decoded
                        /\ nread' = nread + 1
                        /\ reqs'[i].BodySize > 0
                        /\ Len(reqs'[i].Body) = reqs'[i].BodySize
                        /\ pcR' = "go" /\ tpc'[i] = "none"
                   ELSE \* its worker is started
                        /\ pcR = "go" /\ nread' = nread
                        /\ reqs'[i].Body =
                              (IF reqs[i].BodySize > 0 THEN reqs[i].Body ELSE <<>>)
       /\ pcR = "body" =>
             /\ Len(reqs') = Len(reqs) /\ tpc'[cur] = "none"
             /\ pcR' \in {"body", "go", "exit"}
       /\ \A i \in ReqIdx :
             (tpc[i] = "none" /\ tpc'[i] # "none" /\ reqs[i].Command = "put")
             => /\ pcR = "go" /\ i = cur
                /\ reqs[i].BodySize > 0 =>
                      (reqs[i].Body # NoBody /\ reqs'[i].Body = reqs[i].Body
                         /\ Len(reqs[i].Body) = reqs[i].BodySize)
                /\ reqs[i].BodySize = 0 => reqs'[i].Body = <<>>
       /\ pcR' \in {"decode", "body", "go", "close"} =>
             nread' = Len(reqs') + Cardinality(BodiesRead')]_vars

\* a put with a body and one without, both handed to workers
C20_Witness ==
    /\ Len(reqs) = 2
    /\ nread = 3
    /\ \A i \in 1..2 : reqs[i].Command = "put" /\ tpc[i] # "none"
    /\ \E i \in 1..2 : reqs[i].Body = Bytes(MaxBody)
    /\ \E i \in 1..2 : reqs[i].BodySize = 0 /\ reqs[i].Body = <<>>

\* ------------------------------------------------------------------------
\* Properties of a session over the local store
\* ------------------------------------------------------------------------

\* the worker of get j returns from its handler in this step
GetAnswered(j) ==
    /\ j \in 1..Len(reqs)
    /\ reqs[j].Command = "get"
    /\ tpc[j] = "call"
    /\ tpc'[j] # "call"

\* put i has its response on the output, and no other put of the session
\* was handed to a worker
SolePutAnswered(i) ==
    /\ i \in 1..Len(reqs)
    /\ reqs[i].Command = "put"
    /\ Responses(i) # {}
    /\ \A k \in 1..Len(reqs) :
          (k # i /\ reqs[k].Command = "put") => tpc[k] = "none"

\* no put for the action of get j was handed to a worker
NeverPut(j) ==
    \A k \in 1..Len(reqs) :
        (reqs[k].Command = "put" /\ reqs[k].ActionID = reqs[j].ActionID)
           => tpc[k] = "none"

\* C16: the response to a put carries the put's ID and the path of the
\* object and nothing else; a get whose worker runs when the one put of the
\* session, for the same action, has its response on the output is answered
\* with its ID, the put's OutputID, the length of the put's body and the path
\* of the put's response; a get for an action no put was made for is
\* answered with its ID and Miss, and brings no error to the session; and
\* what is written to the output is what the handlers returned
C16_EndToEnd ==
    [][/\ \A k \in 2..Len(out') :
             /\ out'[k] = tresp'[out'[k].req]
             /\ reqs'[out'[k].req].Command = "put" =>
                   out'[k] = progResponse(reqs'[out'[k].req].ID, <<>>, FALSE, <<>>, 0,
                                          objPath(enc(reqs'[out'[k].req].OutputID)),
                                          out'[k].req)
       /\ \A j \in ReqIdx : GetAnswered(j) =>
             /\ \A i \in ReqIdx :
                   (SolePutAnswered(i) /\ reqs[i].ActionID = reqs[j].ActionID)
                   => /\ tpc'[j] = "ready"
                      /\ \A k \in Responses(i) :
                            tresp'[j] = progResponse(reqs[j].ID, <<>>, FALSE,
                                                     reqs[i].OutputID,
                                                     Len(reqs[i].Body),
                                                     out[k].DiskPath, j)
             /\ NeverPut(j)
                   => /\ tpc'[j] = "ready"
                      /\ tresp'[j] = progResponse(reqs[j].ID, <<>>, TRUE, <<>>, 0,
                                                  <<>>, j)
                      /\ gerr' = gerr]_vars

\* a put with a body of MaxBody bytes, its response, then a get for the
\* action and its response: a hit
C16_Witness ==
    /\ Len(out) = 3
    /\ out[2].req = 1 /\ reqs[1].Command = "put" /\ Len(reqs[1].Body) = MaxBody
    /\ out[3].req = 2 /\ reqs[2].Command = "get"
    /\ out[3] = progResponse(reqs[2].ID, <<>>, FALSE, reqs[1].OutputID, MaxBody,
                              out[2].DiskPath, 2)
    /\ runRet = NoErr

\* ------------------------------------------------------------------------
\* Properties of the local store
\* ------------------------------------------------------------------------

\* the file that path names among the files objs of the object directory
FileIn(objs, path) ==
    IF Len(path) > 1 /\ Head(path) = "object" /\ Tail(path) \in ObjectNames
    THEN objs[Tail(path)]
    ELSE NoFile

FileAt(path) == FileIn(objects, path)

\* C9: a Get for an action that directly follows a Put for it that returned
\* no error returns the object id of the Put, which decodes to the object
\* key, and the path the Put returned, and the file at that path holds the
\* payload of the Put
C9_RoundTrip ==
    [][(/\ last.op = "put"
        /\ last.ret.err = NoErr
        /\ last'.op = "get"
        /\ last'.actionId = last.actionId)
       => /\ last'.ret.err = NoErr
          /\ last'.ret.objectId = last.objectId
          /\ last'.ret.diskpath = last.ret.diskpath
          /\ FileIn(objects', last'.ret.diskpath) = File(last.body)
          /\ \E k \in StoreKeys :
                /\ enc(k) = last.objectId
                /\ ~decFails(last'.ret.objectId)
                /\ dec(last'.ret.objectId) = k]_vars

\* a Get that follows a Put of a payload of MaxBody bytes and finds it
C9_Witness ==
    /\ last.op = "get"
    /\ last.afterPut
    /\ last.ret.objectId # <<>>
    /\ FileAt(last.ret.diskpath) = File(Bytes(MaxBody))

\* the marker of actionId is as a Put wrote it, for object o and size n
MarkerNames(actionId, o, n) ==
    /\ actionId \in ActionNames
    /\ markers[actionId].exists
    /\ markers[actionId].data = o \o <<":">> \o Decimal(n)

\* the marker of actionId is valid, and the object file it names is missing
\* or of another size than the marker records
StaleEntry(actionId) ==
    \E o \in ObjectNames, n \in 0..MaxBody :
        /\ MarkerNames(actionId, o, n)
        /\ ~objects[o].exists \/ Len(objects[o].data) # n

\* C10: a Get for an action whose marker is valid and whose object file is
\* missing or of another size returns a miss and no error, and leaves the
\* marker files and the object files as they are
C10_SizeMismatchIsMiss ==
    [][(last'.op = "get" /\ StaleEntry(last'.actionId))
       => /\ last'.ret = notFound
          /\ markers' = markers
          /\ objects' = objects]_vars

\* a Get that misses on an object file replaced by one of another size
C10_Witness ==
    /\ last.op = "get"
    /\ last.ret = notFound
    /\ \E o \in ObjectNames :
          /\ MarkerNames(last.actionId, o, MaxBody)
          /\ objects[o].exists
          /\ Len(objects[o].data) # MaxBody

\* ------------------------------------------------------------------------
\* Properties of the local store over marker files of any content
\* ------------------------------------------------------------------------

HasColon(s) == \E k \in 1..Len(s) : s[k] = ":"

\* what stands after the first colon of s
AfterColon(s) ==
    LET k == CHOOSE k \in 1..Len(s) : s[k] = ":" /\ \A j \in 1..(k - 1) : s[j] # ":"
    IN  SubSeq(s, k + 1, Len(s))

\* s is a decimal integer: digits, one at least, after an optional sign
IsDecimal(s) ==
    LET digits == IF s # <<>> /\ s[1] \in {"+", "-"} THEN Tail(s) ELSE s
    IN  digits # <<>> /\ \A k \in 1..Len(digits) : IsDigit(digits[k])

\* the content of a marker cannot be parsed as objectKey:size
Unparsable(s) == s = <<>> \/ ~HasColon(s) \/ ~IsDecimal(AfterColon(s))

\* C11: a Get for an action whose marker file holds what cannot be parsed as
\* objectKey:size (nothing, no colon, a size that is no decimal integer)
\* returns a miss and no error, and leaves the files as they are
C11_MalformedMarkerIsMiss ==
    [][(/\ last'.op = "get"
        /\ last'.actionId \in ActionNames
        /\ markers[last'.actionId].exists
        /\ Unparsable(markers[last'.actionId].data))
       => /\ last'.ret = notFound
          /\ markers' = markers
          /\ objects' = objects]_vars

\* a Get that misses on a marker that names an object file of 0 bytes and
\* no size
C11_Witness ==
    /\ last.op = "get"
    /\ last.ret = notFound
    /\ last.actionId \in ActionNames
    /\ markers[last.actionId] = File(<<"3", "a", ":">>)
    /\ objects[enc(<<58>>)] = File(<<>>)

\* ------------------------------------------------------------------------
\* Properties of the tiered store
\* ------------------------------------------------------------------------

\* the local tier holds a valid entry for actionId: a marker for object o and
\* size n, and the object file of that size
LocalEntry(actionId, o, n) ==
    /\ MarkerNames(actionId, o, n)
    /\ objects[o].exists
    /\ Len(objects[o].data) = n

\* the bucket holds a sound entry for actionId: both metadata, and a body of
\* the size they give
RemoteSound(actionId) ==
    /\ actionId \in ActionNames
    /\ remote[actionId].exists
    /\ remote[actionId].objectid \in ObjectNames
    /\ \E n \in 0..(MaxBody + 1) :
          /\ remote[actionId].size = Decimal(n)
          /\ Len(remote[actionId].body) = n

\* C12: a Put of the tiered store whose local write succeeded with a size
\* below MinUploadSize makes no call of PutObject, leaves the bucket as it
\* is and returns the local path and no error; with a size of MinUploadSize
\* or above it makes one call of PutObject
C12_ThresholdBoundary ==
    [][(/\ tlast'.op = "put"
        /\ last'.op = "put"
        /\ last'.ret.err = NoErr)
       => IF Len(tlast'.body) < minUploadSize
          THEN /\ tlast'.puts = 0
               /\ tlast'.ret = PutOK(objPath(tlast'.objectId))
               /\ remote' = remote
          ELSE tlast'.puts = 1]_vars

\* a Put of MinUploadSize - 1 bytes made no upload, after a Put of
\* MinUploadSize bytes was uploaded
C12_Witness ==
    /\ tlast.op = "put"
    /\ tlast.ret.err = NoErr
    /\ Len(tlast.body) = minUploadSize - 1
    /\ tlast.puts = 0
    /\ remote[tlast.actionId] =
          Entry(tlast.objectId, Decimal(minUploadSize), Bytes(minUploadSize))

\* C13: a Get of the tiered store for an action the local tier holds a
\* valid entry for returns that entry and makes no call of GetObject; so
\* does the Get that directly follows a Get for the same action that hit
\* remotely and promoted the entry, and it returns the same object id
C13_PromotionIdempotence ==
    [][tlast'.op = "get"
       => /\ \A o \in ObjectNames, n \in 0..(MaxBody + 1) :
                LocalEntry(tlast'.actionId, o, n)
                   => /\ tlast'.gets = 0
                      /\ tlast'.ret = [objectId |-> o, diskpath |-> objPath(o),
                                       err |-> NoErr]
                      /\ remote' = remote
          /\ (/\ tlast.op = "get"
              /\ tlast.actionId = tlast'.actionId
              /\ tlast.gets = 1
              /\ tlast.ret.err = NoErr
              /\ tlast.ret.objectId # <<>>)
             => /\ tlast'.gets = 0
                /\ tlast'.ret = tlast.ret]_vars

\* the Get after a promotion hits locally
C13_Witness ==
    /\ tlast.op = "get"
    /\ tlast.promoted
    /\ tlast.gets = 0
    /\ tlast.ret.objectId # <<>>
    /\ Len(FileAt(tlast.ret.diskpath).data) = MaxBody

CloseReqs == {i \in 1..Len(reqs) : reqs[i].Command = "close"}

\* the state of the session: 0 Starting (the handshake is not written),
\* 1 Reading (the reader loop runs), 2 Draining (the reader has read close
\* or has returned, Run waits for the workers), 3 Terminated (Run returned)
SessionState ==
    CASE Returned -> 3
      [] pcR = "hs" -> 0
      [] pcR \in {"decode", "body", "go"} -> 1
      [] OTHER -> 2

\* C21: once a close record has been read no record is decoded from the
\* input (no request and no body), no get or put is handed to a worker, and
\* the reader does not come back to its loop; and the session state never
\* moves backwards through Starting, Reading, Draining, Terminated
C21_CloseStopsReading ==
    [][/\ CloseReqs # {}
          => /\ nread' = nread
             /\ Len(reqs') = Len(reqs)
             /\ \A i \in ReqIdx : tpc[i] = "none" => tpc'[i] = "none"
             /\ pcR' \in {"close", "exit"}
       /\ SessionState' >= SessionState]_vars

\* Run has returned after a close that was read while two requests were
\* with their workers, and records were left on the input
C21_Witness ==
    /\ Returned
    /\ CloseReqs # {}
    /\ nread < MaxRecs
    /\ Cardinality({i \in ReqIdx : tpc[i] = "done"}) >= 1

\* C22: Provider.Close is called at most once in a session, and once in a
\* session whose reader has read a close record: the calls counted are as
\* many as the close records read, and no second close record is read
C22_CloseOnce ==
    /\ ncloses <= 1
    /\ ncloses = Cardinality(CloseReqs)
    /\ (Returned /\ CloseReqs # {}) => ncloses = 1
    /\ CloseReqs # {} => pcR \in {"close", "exit"}

\* Run has returned in a session that called Close, and Close failed
C22_Witness ==
    /\ Returned
    /\ ncloses = 1
    /\ rerr = Err("close", nread)

\* the requests whose responses are on the output stream, in the order of
\* the stream
Answered == [k \in 1..(Len(out) - 1) |-> out[k + 1].req]

\* C28: with one worker at most one get or put is with its worker at any
\* time (called, answered or writing), and the responses on the output
\* stream are in the order in which their requests were read; with two
\* workers or more a later request can be answered first (the witness)
C28_OrderWithOneWorker ==
    workers = 1
       => /\ Cardinality(InFlight) <= 1
          /\ \A k, l \in 1..Len(Answered) : k < l => Answered[k] < Answered[l]

\* two workers: the response to the second request is written before the
\* response to the first
C28_Witness ==
    /\ workers >= 2
    /\ Len(Answered) >= 2
    /\ Answered[1] > Answered[2]

\* the put requests read so far that carry no ActionID
PutsWithoutAction ==
    {i \in 1..Len(reqs) : reqs[i].Command = "put" /\ reqs[i].ActionID = <<>>}

\* C27: a put without an ActionID makes no storage write (the call made for
\* it, if any, leaves the object files and the markers as they are), and a
\* session that read one returns an error
C27_EmptyActionRejected ==
    [][/\ \A i \in PutsWithoutAction :
             (tpc[i] = "call" /\ tpc'[i] # "call")
                => (objects' = objects /\ markers' = markers)
       /\ (Returned' /\ PutsWithoutAction # {}) => runRet' # NoErr]_vars

\* ------------------------------------------------------------------------
\* The local copy of the tiered store
\* ------------------------------------------------------------------------

\* a hit of the local store for object o
LocalHit(o) == [objectId |-> o, diskpath |-> objPath(o), err |-> NoErr]

\* C25: a Put of the tiered store that called PutObject has written the
\* local store before, with success, so the local entry is there whether
\* the upload succeeds or not; and after a Put that returned no error a Get
\* of the local store for the action returns a hit with the object id put
C25_LocalCopyFirst ==
    [][\A a \in ActionNames, o \in ObjectNames :
          (tlast'.op = "put" /\ tlast'.actionId = a /\ tlast'.objectId = o)
             => /\ tlast'.puts > 0
                   => /\ last'.op = "put"
                      /\ last'.ret.err = NoErr
                      /\ localGet(a)' = LocalHit(o)
                /\ tlast'.ret.err = NoErr => localGet(a)' = LocalHit(o)]_vars

\* a Put whose upload failed after the local write
C25_Witness ==
    /\ tlast.op = "put"
    /\ tlast.puts = 1
    /\ tlast.net = "down"
    /\ localGet(tlast.actionId) = LocalHit(tlast.objectId)

\* C29: a Get of the tiered store that directly follows a Get for the same
\* action which promoted the remote object and returned a miss (the size of
\* the promoted file is not the size the bucket declares) calls GetObject
\* again and returns a miss again
C29_MismatchLeavesNoEntry ==
    [][(/\ tlast.op = "get"
        /\ tlast.gets = 1
        /\ tlast.ret = notFound
        /\ last.op = "put"
        /\ last.ret.err = NoErr
        /\ tlast'.op = "get"
        /\ tlast'.actionId = tlast.actionId)
       => (tlast'.ret = notFound /\ tlast'.gets = 1)]_vars

RecordedSize(p) == calls[p].size

\* C23: while a hit returned by Get is with handleGet the object file it
\* names exists with the size recorded in the marker that was read, and
\* the hit response made of it carries that size
C23_EntryValidity ==
    \A p \in Callers :
       /\ calls[p].pc = "hit"
             => /\ objects[calls[p].objectId].exists
                /\ Len(objects[calls[p].objectId].data) = RecordedSize(p)
       /\ calls[p].pc = "answered"
             => /\ ~calls[p].h.resp.Miss
                /\ calls[p].h.resp.Size = RecordedSize(p)
       /\ calls[p].pc # "failed"

\* a Put of goroutine q is between os.Create and the end of io.Copy with a
\* body still to be written
BodyUnwritten(q) ==
    /\ calls[q].op = "put"
    /\ calls[q].pc = "copy"
    /\ calls[q].body # <<>>

\* C24: the marker a Get reads is there in full, objectId:size as some Put
\* wrote it, or not there at all, never empty or cut short; and when it is
\* read no Put is in the middle of writing the body of the object it names
C24_MarkerAtomic ==
    [][\A p \in Callers :
          (calls[p].pc = "read" /\ calls'[p].pc # "read" /\ calls'[p].marker.exists)
             => /\ \E n \in 0..MaxBody :
                      calls'[p].marker.data
                         = markerContent(enc(SharedObjectKey), n)
                /\ \A q \in Callers :
                      (BodyUnwritten(q) /\ calls[q].objectId = calls'[p].objectId)
                         => FALSE]_vars

\* ------------------------------------------------------------------------
\* Termination
\* ------------------------------------------------------------------------

\* the reader waits in g.Go: the pool has no slot
ReaderBlocked == pcR = "go" /\ ~GoMayStart

\* C30: when every read, every call of the provider and every write returns
\* in the end, Run returns in the end, whatever the number of workers and
\* the input; and a reader that waits in g.Go for a slot of the pool gets
\* one in the end, also when the worker that frees it has failed
C30_Termination ==
    /\ <>Returned
    /\ ReaderBlocked ~> ~ReaderBlocked
    /\ (ReaderBlocked /\ werr) ~> (pcR # "go")

\* the reader waits for a slot with every worker busy, the last record of
\* the input read and a response being written
C30_Witness ==
    /\ ReaderBlocked
    /\ Cardinality(InFlight) = workers
    /\ nread = MaxRecs
    /\ \E i \in ReqIdx : tpc[i] = "writing"

====
